---- MODULE Spec2Model ----
\* Token-bucket rate limiter of the /security/validate endpoint (src/main.py).
\*
\* Arithmetic.  The source computes with Python floats; the model computes the
\* same expressions exactly, over a discrete clock.  Time is counted in ticks,
\* TicksPerSec ticks to the second, and tokens in units of 1/Unit token with
\* Unit = 60 * TicksPerSec, so that elapsed * REFILL_RATE is a whole number of
\* units for every elapsed time the clock can show.  Floating-point rounding
\* is not modelled.
EXTENDS Integers, Sequences, FiniteSets, TLC

\* ---------------------------------------------------------------- configuration
RATE_LIMIT == 43
BURST_LIMIT == 11

\* Resolution of the clock: one tick is the time in which the bucket gains
\* exactly 1/60 token (1/RATE_LIMIT second).
TicksPerSec == RATE_LIMIT
\* Token units in one whole token.
Unit == 60 * TicksPerSec
\* REFILL_RATE = RATE_LIMIT / 60 tokens per second
\*             = (RATE_LIMIT / 60) * Unit / TicksPerSec units per tick.
REFILL_RATE == (RATE_LIMIT * Unit) \div (60 * TicksPerSec)

\* ---------------------------------------------------------------- bounds
\* Clock readings of the many-key specification, in ticks.
MaxNow == 1
\* Clock readings of the one-client specification, in whole seconds.
MaxSeconds == 4
\* Clock readings of the monotonic-clock specification, in ticks.
MaxTicks == 20
\* Clock readings while a burst of requests is in flight, in ticks.
BurstNow == 1
\* Longest user identifier / client address of the key-derivation check.
MaxLen == 2
\* Clock readings of the accept-and-handle specification, in whole seconds.
ServerSeconds == 8
\* Clock readings of the retrying-client specification, in ticks, and the
\* most ticks between two of its calls.
LiveTicks == 130
LiveStep == 4

\* ---------------------------------------------------------------- values
None == "None"
EmptyFn == [x \in {} |-> x]
Min(a, b) == IF a <= b THEN a ELSE b

\* Strings are sequences of characters.
Users == {<<"a">>, <<"b">>}
Addrs == {<<"1">>}
Texts == {<<>>, <<"x">>}

\* ---------------------------------------------------------------- state
VARIABLES
    store,       \* rate_limit_store: key -> [tokens, last_refill]
    ret,         \* what the last check_rate_limit call returned, and to whom
    before,      \* the value of ret before that call
    resp,        \* request id -> the response validate_security gave it
    inflight,    \* requests accepted by the server and not yet handled
    inits,       \* how many times a bucket was initialised
    zeroElapsed, \* every check_rate_limit call so far found elapsed = 0
    probe,       \* key-derivation check: the two requests and their keys
    tally        \* retrying client: reading of its first call, calls admitted

vars == <<store, ret, before, resp, inflight, inits, zeroElapsed, probe, tally>>

\* ---------------------------------------------------------------- get_client_key
\* f"{user_id}-{ip}"
get_client_key(ip, user_id) == user_id \o <<"-">> \o ip

Keys == {get_client_key(a, u) : u \in Users, a \in Addrs}

\* ---------------------------------------------------------------- check_rate_limit
\* Mutant: every call takes the key for a new one.
KeyMissingAlways(st, key) == TRUE

\* key not in rate_limit_store
KeyMissing(st, key) == key \notin DOMAIN st

\* Mutant: a new bucket starts empty.
NewBucketEmpty(now) == [tokens |-> 0, last_refill |-> now]

\* {"tokens": BURST_LIMIT, "last_refill": now}
NewBucket(now) == [tokens |-> BURST_LIMIT * Unit, last_refill |-> now]

\* elapsed = now - bucket["last_refill"]
Elapsed(bucket, now) == now - bucket.last_refill

\* min(BURST_LIMIT, bucket["tokens"] + elapsed * REFILL_RATE)
Refilled(tokens, elapsed) == Min(BURST_LIMIT * Unit, tokens + elapsed * REFILL_RATE)

\* Mutant: the refill is computed and not written; only last_refill is.
RefreshedStampOnly(bucket, tokens, now) ==
    [tokens |-> bucket.tokens, last_refill |-> now]

\* Mutant: the refilled tokens are written and last_refill is left as it was.
RefreshedTokensOnly(bucket, tokens, now) ==
    [tokens |-> tokens, last_refill |-> bucket.last_refill]

\* bucket["tokens"] = <the refilled tokens> ; bucket["last_refill"] = now
Refreshed(bucket, tokens, now) == [tokens |-> tokens, last_refill |-> now]

\* Mutant: a bucket holding exactly one token is refused.
HasTokenStrict(tokens) == tokens > Unit

\* bucket["tokens"] >= 1
HasToken(tokens) == tokens >= Unit

\* Mutant: the admitted call takes no token.
ConsumeNothing(tokens) == tokens

\* bucket["tokens"] -= 1
Consume(tokens) == tokens - Unit

\* int(x) for the quotient n / d, d > 0: truncation towards zero.
Truncate(n, d) == IF n >= 0 THEN n \div d ELSE -((-n) \div d)

\* Mutant: the truncated quotient without the added second.
RetryAfterTruncated(tokens) == Truncate((Unit - tokens) * 60, RATE_LIMIT * Unit)

\* retry_after = (1 - bucket["tokens"]) / REFILL_RATE ; int(retry_after) + 1
\* (1 - tokens) / REFILL_RATE seconds = (Unit - tokens) * 60 / (RATE_LIMIT * Unit).
RetryAfter(tokens) == Truncate((Unit - tokens) * 60, RATE_LIMIT * Unit) + 1

\* Mutant: one bucket object shared by every key.
PutBucketShared(st, key, bucket) == [k \in DOMAIN st \cup {key} |-> bucket]

\* rate_limit_store[key] = bucket; every other entry is left as it is.
PutBucket(st, key, bucket) == (key :> bucket) @@ st

\* The whole call: the store it leaves and the pair it returns.
check_rate_limit(st, key, now) ==
    LET created == KeyMissing(st, key)
        st1     == IF created THEN PutBucket(st, key, NewBucket(now)) ELSE st
        bucket  == st1[key]
        elapsed == Elapsed(bucket, now)
        fresh   == Refreshed(bucket, Refilled(bucket.tokens, elapsed), now)
        tokens  == fresh.tokens
        allowed == HasToken(tokens)
        left    == IF allowed THEN Consume(tokens) ELSE tokens
    IN  [store   |-> PutBucket(st1, key, [fresh EXCEPT !.tokens = left]),
         allowed |-> allowed,
         retry   |-> IF allowed THEN 0 ELSE RetryAfter(tokens),
         created |-> created,
         elapsed |-> elapsed]

\* ---------------------------------------------------------------- validate_security
\* str(retry_after): the decimal digits of a non-negative integer.
Digit(d) == <<"0", "1", "2", "3", "4", "5", "6", "7", "8", "9">>[d + 1]

RECURSIVE Str(_)
Str(n) == IF n < 10 THEN <<Digit(n)>> ELSE Str(n \div 10) \o <<Digit(n % 10)>>

\* Mutant: only the user identifier is looked at.
InvalidUserOnly(data) == data.userId = <<>>

\* not data.userId or not data.input or not data.category
Invalid(data) == data.userId = <<>> \/ data.input = <<>> \/ data.category = <<>>

Response400 ==
    [status |-> 400, blocked |-> TRUE, sanitizedOutput |-> None,
     retryAfter |-> None, header |-> None]

\* Mutant: the header carries the quotient before the second is added.
Response429HeaderShort(retry_after) ==
    [status |-> 429, blocked |-> TRUE, sanitizedOutput |-> None,
     retryAfter |-> retry_after, header |-> Str(retry_after - 1)]

Response429(retry_after) ==
    [status |-> 429, blocked |-> TRUE, sanitizedOutput |-> None,
     retryAfter |-> retry_after, header |-> Str(retry_after)]

Response200(data) ==
    [status |-> 200, blocked |-> FALSE, sanitizedOutput |-> data.input,
     retryAfter |-> None, header |-> None]

\* The handler is a coroutine without an await: once the event loop starts it
\* for a request it runs to its return before any other request is looked at.
\* `now` is the reading time.time() gives inside check_rate_limit.
validate_security(id, data, ip, now) ==
    IF Invalid(data)
    THEN /\ resp' = (id :> Response400) @@ resp
         /\ UNCHANGED <<store, ret, before, inits, zeroElapsed>>
    ELSE LET key == get_client_key(ip, data.userId)
             r   == check_rate_limit(store, key, now)
         IN  /\ store' = r.store
             /\ ret' = [called |-> TRUE, key |-> key, now |-> now,
                        allowed |-> r.allowed, retry |-> r.retry]
             /\ before' = ret
             /\ inits' = IF r.created THEN inits + 1 ELSE inits
             /\ zeroElapsed' = (zeroElapsed /\ r.elapsed = 0)
             /\ resp' = (id :> (IF r.allowed THEN Response200(data)
                                              ELSE Response429(r.retry))) @@ resp

\* ---------------------------------------------------------------- the server
NoRet == [called |-> FALSE, key |-> <<>>, now |-> 0, allowed |-> TRUE, retry |-> 0]

Requests(users) ==
    [userId : users, input : Texts, category : Texts]

InitServer ==
    /\ store = EmptyFn
    /\ ret = NoRet
    /\ before = NoRet
    /\ resp = EmptyFn
    /\ inits = 0
    /\ zeroElapsed = TRUE
    /\ tally = [born |-> 0, admitted |-> 0]

Init ==
    /\ InitServer
    /\ inflight = {}
    /\ probe = EmptyFn

\* A request arrives and is handled; the clock may show any reading,
\* time.time() being the wall clock.
Serve ==
    \E data \in Requests(Users \cup {<<>>}), ip \in Addrs, now \in 0..MaxNow :
        /\ validate_security(0, data, ip, now)
        /\ UNCHANGED <<inflight, probe, tally>>

Next == Serve

Spec == Init /\ [][Next]_vars

\* ---------------------------------------------------------------- one client
\* One client, one bucket.
TheUser == <<"a">>
TheAddr == <<"1">>
TheKey == get_client_key(TheAddr, TheUser)
TheRequest == [userId |-> TheUser, input |-> <<"x">>, category |-> <<"c">>]

\* The wall clock may show any whole second, earlier ones included.
ServeAnyClock ==
    \E now \in {s * TicksPerSec : s \in 0..MaxSeconds} :
        /\ validate_security(0, TheRequest, TheAddr, now)
        /\ UNCHANGED <<inflight, probe, tally>>

NextOne == ServeAnyClock

SpecOne == Init /\ [][NextOne]_vars

\* The clock never shows a reading earlier than one it has shown.
ServeMonotonic ==
    \E now \in 0..MaxTicks :
        /\ ret.called => now >= ret.now
        /\ validate_security(0, TheRequest, TheAddr, now)
        /\ UNCHANGED <<inflight, probe, tally>>

NextMono == ServeMonotonic

SpecMono == Init /\ [][NextMono]_vars

\* ---------------------------------------------------------------- a burst
\* NumCallers requests of one client are in flight at once against a store
\* that has never seen the client.  The event loop runs the handler for them
\* one at a time, in any order; the handler has no await, so it runs from its
\* first line to its return without another handler in between.
NumCallers == BURST_LIMIT + 1

Burst(user, ip) ==
    {[id |-> i, ip |-> ip,
      data |-> [userId |-> user, input |-> <<"x">>, category |-> <<"c">>]] :
        i \in 1..NumCallers}

InitBurst ==
    /\ InitServer
    /\ \E user \in Users, ip \in Addrs : inflight = Burst(user, ip)
    /\ probe = EmptyFn

Handle ==
    \E req \in inflight, now \in 0..BurstNow :
        /\ validate_security(req.id, req.data, req.ip, now)
        /\ inflight' = inflight \ {req}
        /\ UNCHANGED <<probe, tally>>

NextBurst == Handle

SpecBurst == InitBurst /\ [][NextBurst]_vars

\* ---------------------------------------------------------------- key derivation
\* Two requests, each with a user identifier and a client address of at most
\* MaxLen characters; the handler derives the key of each.
Alphabet == {"a", "-"}

Strings == UNION {[1..n -> Alphabet] : n \in 1..MaxLen}

InitKey ==
    /\ InitServer
    /\ inflight = {}
    /\ probe \in [1..2 -> [userId : Strings, ip : Strings, key : {None}]]

DeriveKey ==
    \E i \in 1..2 :
        /\ probe[i].key = None
        /\ probe' = [probe EXCEPT
                         ![i].key = get_client_key(probe[i].ip, probe[i].userId)]
        /\ UNCHANGED <<store, ret, before, resp, inflight, inits, zeroElapsed, tally>>

NextKey == DeriveKey

SpecKey == InitKey /\ [][NextKey]_vars

\* ---------------------------------------------------------------- accept and handle
\* The server accepts a request, well-formed or not, and then handles it.
\* The wall clock may show any whole second, earlier ones included.
Arriving ==
    [userId : {<<>>, TheUser}, input : {<<>>, <<"x">>, <<"y">>},
     category : {<<>>, <<"c">>}]

Accept ==
    /\ inflight = {}
    /\ \E data \in Arriving : inflight' = {[id |-> 0, ip |-> TheAddr, data |-> data]}
    /\ UNCHANGED <<store, ret, before, resp, inits, zeroElapsed, probe, tally>>

HandleAccepted ==
    \E req \in inflight, now \in {s * TicksPerSec : s \in 0..ServerSeconds} :
        /\ validate_security(req.id, req.data, req.ip, now)
        /\ inflight' = inflight \ {req}
        /\ UNCHANGED <<probe, tally>>

NextServer == Accept \/ HandleAccepted

SpecServer == Init /\ [][NextServer]_vars

\* ---------------------------------------------------------------- a retrying client
\* One client calls again and again while the clock moves on: each call reads
\* the time of the call before it or a later one, at most LiveStep ticks
\* later.  The reading of its first call and the number of its calls admitted
\* are kept in tally.
Retry(now) ==
    /\ validate_security(0, TheRequest, TheAddr, now)
    /\ tally' = [born     |-> IF ret.called THEN tally.born ELSE now,
                 admitted |-> tally.admitted + (IF ret'.allowed THEN 1 ELSE 0)]
    /\ UNCHANGED <<inflight, probe>>

\* The first call, or a call at a later reading than the last.
RetryLater ==
    \E now \in 0..LiveTicks :
        /\ ret.called => (ret.now < now /\ now <= ret.now + LiveStep)
        /\ ~ret.called => now <= LiveStep
        /\ Retry(now)

\* A call at the very reading of the last.
RetryAtOnce ==
    /\ ret.called
    /\ Retry(ret.now)

NextLive == RetryLater \/ RetryAtOnce

\* The client keeps calling and the clock keeps advancing.
SpecLive == Init /\ [][NextLive]_vars /\ WF_vars(RetryLater)

\* ================================================================ claims
\* Tokens a whole second adds to a bucket, in units.
PerSecond == TicksPerSec * REFILL_RATE

\* The tokens of the bucket of the last call right after its refill step:
\* an admitted call took one token from them, a rejected call none.
PostRefill == store[ret.key].tokens + (IF ret.allowed THEN Unit ELSE 0)

\* C1: after every call, every bucket holds between 0 and BURST_LIMIT tokens.
BoundedTokens ==
    \A k \in DOMAIN store :
        /\ 0 <= store[k].tokens
        /\ store[k].tokens <= BURST_LIMIT * Unit

\* Requests handled so far, and how many of them were let through or refused.
Handled == DOMAIN resp
Admitted == {id \in Handled : resp[id].status = 200}
Rejected == {id \in Handled : resp[id].status = 429}

\* C2: of the calls made for a new key with no time passing between them, the
\* n-th is admitted if n <= BURST_LIMIT and rejected if n = BURST_LIMIT + 1.
NoFreeAdmission ==
    (ret.called /\ zeroElapsed) =>
        (ret.allowed <=> Cardinality(Handled) <= BURST_LIMIT)

\* The call after BURST_LIMIT admitted ones is the first to be refused.
NoFreeAdmissionWitness ==
    /\ zeroElapsed
    /\ Cardinality(Handled) = BURST_LIMIT + 1
    /\ before.allowed
    /\ ~ret.allowed

\* C3: of NumCallers concurrent calls on one key against a full bucket with no
\* time passing, never more than BURST_LIMIT are admitted, and once all have
\* returned exactly BURST_LIMIT were admitted and the others rejected,
\* whatever the order in which they ran.
ConcurrencySafety ==
    zeroElapsed =>
        /\ Cardinality(Admitted) <= BURST_LIMIT
        /\ inflight = {} =>
               /\ Cardinality(Admitted) = BURST_LIMIT
               /\ Cardinality(Rejected) = NumCallers - BURST_LIMIT

\* All callers have returned, and it is caller 1 that was turned away.
ConcurrencySafetyWitness ==
    /\ zeroElapsed
    /\ inflight = {}
    /\ Cardinality(Handled) = NumCallers
    /\ resp[1].status = 429
    /\ resp[NumCallers].status = 200

\* C9: concurrent first callers of one key initialise its bucket once, and
\* each admitted caller's token stays taken: with no time passing, the bucket
\* holds BURST_LIMIT tokens less one for every caller admitted.
LazyCreationOnce ==
    ret.called =>
        /\ inits = 1
        /\ DOMAIN store = {ret.key}
        /\ zeroElapsed =>
               store[ret.key].tokens = (BURST_LIMIT - Cardinality(Admitted)) * Unit

\* Three first-time callers have run; one bucket, three tokens gone.
LazyCreationOnceWitness ==
    /\ zeroElapsed
    /\ Cardinality(Handled) = 3
    /\ Cardinality(inflight) = NumCallers - 3
    /\ inits = 1
    /\ store[ret.key].tokens = (BURST_LIMIT - 3) * Unit

\* C7: two requests get the same key exactly when they have the same user
\* identifier and the same client address.
KeyInjective ==
    \A i, j \in DOMAIN probe :
        (probe[i].key # None /\ probe[j].key # None) =>
            ((probe[i].key = probe[j].key)
                <=> (probe[i].userId = probe[j].userId /\ probe[i].ip = probe[j].ip))

\* C4: when a call was rejected with retry hint r and the next call on the key
\* reads the clock exactly r seconds later, that call is admitted and returns
\* (true, 0).
RefillRecovery ==
    (/\ before.called
     /\ ~before.allowed
     /\ ret.now = before.now + before.retry * TicksPerSec)
        => (ret.allowed /\ ret.retry = 0)

\* A rejected call, the clock r seconds on, and the call made then.
RefillRecoveryWitness ==
    /\ before.called
    /\ ~before.allowed
    /\ before.retry >= 2
    /\ ret.now = before.now + before.retry * TicksPerSec
    /\ ret.allowed

\* C5: a call that reads the clock earlier than the bucket's last_refill
\* refills nothing: the tokens after the refill step equal those before the call.
NegativeElapsedClamped ==
    [][(/\ ret'.called
        /\ ret'.key \in DOMAIN store
        /\ ret'.now < store[ret'.key].last_refill)
           => PostRefill' = store[ret'.key].tokens]_vars

\* C6: a call for one key leaves every other key as it was: present or absent,
\* and its tokens and last_refill unchanged.
KeyIsolation ==
    [][\A k \in Keys :
           k # ret'.key =>
               /\ (k \in DOMAIN store') = (k \in DOMAIN store)
               /\ k \in DOMAIN store => store'[k] = store[k]]_vars

\* One key drained and rejected while the other still holds what its only
\* call left it.
KeyIsolationWitness ==
    \E k1, k2 \in DOMAIN store :
        /\ k1 # k2
        /\ ret.called
        /\ ret.key = k1
        /\ ~ret.allowed
        /\ store[k2].tokens = (BURST_LIMIT - 1) * Unit

\* C8: a call returns (true, 0) or (false, r) with r a whole number >= 1.
ReturnShape ==
    ret.called =>
        \/ ret.allowed /\ ret.retry = 0
        \/ ~ret.allowed /\ ret.retry \in Nat /\ ret.retry >= 1

\* A rejected call whose exact wait is less than a second.
ReturnShapeWitness ==
    /\ ret.called
    /\ ~ret.allowed
    /\ PostRefill + PerSecond > Unit
    /\ ret.retry = 1

\* ceil(n / d) for d > 0.
Ceil(n, d) == -((-n) \div d)

Called == 0 \in DOMAIN resp /\ resp[0].status # 400

\* The bucket a call finds: the one in the store, or the one it creates.
Found(key, now) ==
    IF key \in DOMAIN store
    THEN store[key]
    ELSE [tokens |-> BURST_LIMIT * Unit, last_refill |-> now]

\* min(capacity, tokens + elapsed * rate), from the bucket the call finds.
Expected(key, now) ==
    LET b == Found(key, now)
        t == b.tokens + (now - b.last_refill) * REFILL_RATE
    IN  IF t <= BURST_LIMIT * Unit THEN t ELSE BURST_LIMIT * Unit

\* C11: a call admits exactly when min(capacity, tokens + elapsed * rate) is at
\* least one token, and an admitted call leaves that value less one token.
AdmissionDecision ==
    [][Called' =>
          LET r == Expected(ret'.key, ret'.now)
          IN  /\ ret'.allowed <=> r >= Unit
              /\ ret'.allowed => store'[ret'.key].tokens = r - Unit]_vars

\* A call admitted on exactly one token, after a call that read another time.
AdmissionDecisionWitness ==
    /\ Called
    /\ ret.allowed
    /\ store[ret.key].tokens = 0
    /\ before.called
    /\ before.key = ret.key
    /\ before.now # ret.now

\* C12: after a call, admitted or rejected, the bucket's last_refill is the
\* clock reading of that call.
LastRefillIsNow ==
    ret.called => store[ret.key].last_refill = ret.now

\* A rejected call that read another time than the call before it.
LastRefillIsNowWitness ==
    /\ ret.called
    /\ ~ret.allowed
    /\ before.key = ret.key
    /\ before.now # ret.now
    /\ store[ret.key].last_refill = ret.now

\* C13: the store holds exactly the keys called so far.  A step that calls
\* check_rate_limit adds its key if it is new and removes none; any other
\* step leaves the keys as they are; one bucket is initialised per key.  The
\* first call of a key finds capacity tokens and a last_refill equal to its
\* own clock reading: it is admitted and leaves capacity less one token.
LazyCreation ==
    [][/\ DOMAIN store \subseteq DOMAIN store'
       /\ inits' = Cardinality(DOMAIN store')
       /\ Called' => DOMAIN store' = DOMAIN store \cup {ret'.key}
       /\ ~Called' => DOMAIN store' = DOMAIN store
       /\ (Called' /\ ret'.key \notin DOMAIN store) =>
              /\ ret'.allowed
              /\ store'[ret'.key] =
                     [tokens |-> (BURST_LIMIT - 1) * Unit, last_refill |-> ret'.now]
      ]_vars

\* A second key is created, at another reading than the first key's last call,
\* while the first key's drained bucket is still there.
LazyCreationWitness ==
    \E k1, k2 \in DOMAIN store :
        /\ k1 # k2
        /\ inits = 2
        /\ ret.key = k2
        /\ store[k2] = [tokens |-> (BURST_LIMIT - 1) * Unit, last_refill |-> ret.now]
        /\ store[k1].tokens < Unit
        /\ store[k1].last_refill # ret.now

\* C18: a rejected call leaves the bucket with min(capacity, tokens + elapsed *
\* rate), a value below one token; nothing is subtracted from it.
RejectionConsumesNothing ==
    [][(Called' /\ ~ret'.allowed) =>
          LET r == Expected(ret'.key, ret'.now)
          IN  /\ r < Unit
              /\ store'[ret'.key].tokens = r]_vars

\* A rejected call that found a refill to add: the call before it was rejected
\* at an earlier reading with fewer tokens.
RejectionConsumesNothingWitness ==
    /\ Called
    /\ ~ret.allowed
    /\ before.called
    /\ ~before.allowed
    /\ before.now < ret.now
    /\ store[ret.key].tokens > 0
    /\ store[ret.key].tokens < Unit

\* The number a string of decimal digits stands for.
DigitValue(c) == CHOOSE d \in 0..9 : Digit(d) = c

RECURSIVE Number(_)
Number(digits) ==
    IF digits = <<>>
    THEN 0
    ELSE 10 * Number(SubSeq(digits, 1, Len(digits) - 1))
             + DigitValue(digits[Len(digits)])

\* A request is well-formed when its userId, input and category are all
\* non-empty strings.
WellFormed(data) ==
    Len(data.userId) > 0 /\ Len(data.input) > 0 /\ Len(data.category) > 0

\* C15: the response to a well-formed request follows the limiter's result.
\* It is a 429 exactly when check_rate_limit returned admitted = false, and
\* then the retryAfter field is the returned retry value and the Retry-After
\* header its decimal digits; otherwise it has blocked = false and the
\* request's input as sanitizedOutput.
ResponseFaithful ==
    [][\A req \in inflight :
           (inflight' = inflight \ {req} /\ WellFormed(req.data)) =>
               LET rs == resp'[req.id]
               IN  /\ ret'.called
                   /\ rs.status = 429 <=> ~ret'.allowed
                   /\ ~ret'.allowed =>
                          /\ rs.blocked
                          /\ rs.retryAfter = ret'.retry
                          /\ rs.header # None
                          /\ Number(rs.header) = ret'.retry
                   /\ ret'.allowed =>
                          /\ rs.status = 200
                          /\ rs.blocked = FALSE
                          /\ rs.sanitizedOutput = req.data.input]_vars

\* A 429 whose retry value takes two digits.
ResponseFaithfulWitness ==
    /\ inflight = {}
    /\ 0 \in DOMAIN resp
    /\ resp[0].status = 429
    /\ ~ret.allowed
    /\ ret.retry >= 10
    /\ resp[0].retryAfter = ret.retry
    /\ Len(resp[0].header) = 2

\* C17: a request with an empty userId, input or category gets a 400 and
\* leaves rate_limit_store as it was: no bucket created, no token taken, no
\* last_refill written; check_rate_limit is not called.
InvalidTouchesNothing ==
    [][\A req \in inflight :
           (inflight' = inflight \ {req} /\ ~WellFormed(req.data)) =>
               /\ resp'[req.id].status = 400
               /\ store' = store
               /\ ret' = ret
               /\ inits' = inits]_vars

\* A 400 given while the client's bucket exists and is not full.
InvalidTouchesNothingWitness ==
    /\ inflight = {}
    /\ 0 \in DOMAIN resp
    /\ resp[0].status = 400
    /\ TheKey \in DOMAIN store
    /\ store[TheKey].tokens < BURST_LIMIT * Unit

\* Ticks in which an empty bucket gains one token.
TicksPerToken == (Unit + REFILL_RATE - 1) \div REFILL_RATE

\* C14: a client that keeps calling while the clock advances is admitted
\* again after a rejection, however often it is rejected in between: the
\* rejected calls keep the refill gathered so far.  (Stated for rejections
\* that leave the clock of the model the time of one token to run.)
NoRefillStarvation ==
    (ret.called /\ ~ret.allowed /\ ret.now + TicksPerToken <= LiveTicks)
        ~> (ret.called /\ ret.allowed)

\* An admitted call one tick after a rejected one.
NoRefillStarvationWitness ==
    /\ before.called
    /\ ~before.allowed
    /\ ret.allowed
    /\ ret.now = before.now + 1

\* C16: up to any clock reading t, the calls admitted since the bucket was
\* created at t0 number at most capacity + (t - t0) * rate.  The clock not
\* going back, t is the latest reading.
SustainedRateBound ==
    ret.called =>
        tally.admitted * Unit
            <= BURST_LIMIT * Unit + (ret.now - tally.born) * REFILL_RATE

\* One call more than the capacity admitted, at the first tick that allows it.
SustainedRateBoundWitness ==
    /\ ret.called
    /\ ret.allowed
    /\ tally.admitted = BURST_LIMIT + 1
    /\ tally.admitted * Unit
           = BURST_LIMIT * Unit + (ret.now - tally.born) * REFILL_RATE

====
